---- MODULE Spec2Model ----
(***************************************************************************)
(* A model of ticker (src/src/lib.rs): a Ticker owns a source iterator,    *)
(* the receiving end of a tick channel and the sending end of a kill       *)
(* channel; a daemon thread waits on the kill channel with a timeout of    *)
(* one interval and sends one tick per timeout; TickIter::next blocks on   *)
(* the tick channel and then advances the source.                          *)
(*                                                                         *)
(* Two processes: the consumer (position cpc) and the daemon (position     *)
(* dpc).  Time is counted in completed interval timeouts of the daemon.    *)
(***************************************************************************)
EXTENDS Naturals, Sequences, FiniteSets

\* ------------------------------------------------------------- bounds
\* Longest source sequence drawn at construction.
MaxLen == 2
\* Number of next() calls the consumer makes at most.
MaxCalls == 4
\* The daemon's clock is stopped while this many ticks are pending.
MaxPending == 3

\* Elements a source sequence is made of.
Values == {1, 2}

\* All finite sequences over S of length at most n.
RECURSIVE SeqsUpTo(_, _)
SeqsUpTo(S, n) ==
    IF n = 0 THEN {<<>>}
    ELSE LET shorter == SeqsUpTo(S, n - 1)
         IN  shorter \cup {Append(s, v) : s \in {t \in shorter : Len(t) = n - 1}, v \in S}

VARIABLES
    input,        \* the source as given to Ticker::new (never changes)
    src,          \* Ticker.src: what the source iterator has yet to yield
    tickq,        \* messages in the tick channel (send -> recv), oldest first;
                  \* each () is tagged with the number of the timeout that produced it
    killq,        \* number of messages in the kill channel (kill -> kill_recv)
    recvLive,     \* Ticker.recv (Receiver of ticks) has not been dropped
    killLive,     \* Ticker.kill (Sender of the kill signal) has not been dropped
    sendLive,     \* the daemon's send (Sender of ticks) has not been dropped
    killRecvLive, \* the daemon's kill_recv has not been dropped
    dpc,          \* daemon: "wait" (in recv_timeout), "send" (timed out), "done"
    cpc,          \* consumer: "ticker", "iter", "recv", "next", "panicked",
                  \*           "drop_recv", "drop_kill", "dropped"
    timeouts,     \* interval timeouts the daemon has completed
    sent,         \* ticks the daemon has sent successfully
    consumed,     \* ticks the consumer has received
    calls,        \* next() calls begun
    held,         \* ticks received by the current (or last) next() call
    deadAtCall,   \* the daemon had terminated when the current (or last) call began
    returns,      \* one record per next() call that returned: the item it gave,
                  \* the ticks it consumed, the number of timeouts completed
                  \* at its return, and whether the daemon had terminated
                  \* when it began
    fatal,        \* a next() call ended in the expect() panic
    reason,       \* why the daemon terminated ("" while it runs)
    shutdowns,    \* kill.send(()) calls made by drop
    atKill        \* what the daemon had done when drop called kill.send(()):
                  \* ticks sent, timeouts completed, and whether a timeout's
                  \* tick was still to be sent

vars == <<input, src, tickq, killq, recvLive, killLive, sendLive, killRecvLive,
          dpc, cpc, timeouts, sent, consumed, calls, held, deadAtCall, returns,
          fatal, reason, shutdowns, atKill>>

chans    == <<tickq, killq, recvLive, killLive, sendLive, killRecvLive>>
daemon   == <<dpc, timeouts, sent, reason>>
consumer == <<cpc, src, consumed, calls, held, deadAtCall, returns, fatal, shutdowns, atKill>>

\* Option<Item>: Some(v) is <<v>>, None is <<>>.
Some(v) == <<v>>
None == <<>>

\* ------------------------------------------------------------- construction
\* Ticker::new: two fresh channels, the tick channel holding `first`, the
\* daemon spawned and about to enter its first recv_timeout.  The code sends
\* no tick at construction: Init is Construct(<<>>).
Construct(first) ==
    /\ input \in SeqsUpTo(Values, MaxLen)
    /\ src = input
    /\ tickq = first
    /\ killq = 0
    /\ recvLive = TRUE
    /\ killLive = TRUE
    /\ sendLive = TRUE
    /\ killRecvLive = TRUE
    /\ dpc = "wait"
    /\ cpc = "ticker"
    /\ timeouts = 0
    /\ sent = Len(first)
    /\ consumed = 0
    /\ calls = 0
    /\ held = 0
    /\ deadAtCall = FALSE
    /\ returns = <<>>
    /\ fatal = FALSE
    /\ reason = ""
    /\ shutdowns = 0
    /\ atKill = [sent |-> 0, timeouts |-> 0, pending |-> FALSE]

\* Variant of Init: a tick is already queued when the constructor returns.
InitEager == Construct(<<0>>)

Init == Construct(<<>>)

\* ------------------------------------------------------------- daemon
\* The daemon thread returns: the closure's captures send and kill_recv are
\* dropped, and with kill_recv whatever the kill channel still holds.
DaemonExit(why) ==
    /\ dpc' = "done"
    /\ reason' = why
    /\ sendLive' = FALSE
    /\ killRecvLive' = FALSE
    /\ killq' = 0

\* Variant of DaemonTimeout: the interval is slept through without looking
\* at the kill channel, so a timeout can fire with a signal pending.
DaemonTimeoutSleeps ==
    /\ dpc = "wait"
    /\ killLive
    /\ Len(tickq) < MaxPending
    /\ timeouts' = timeouts + 1
    /\ dpc' = "send"
    /\ UNCHANGED <<chans, consumer, input, sent, reason>>

\* kill_recv.recv_timeout(interval) = Err(Timeout): nothing arrived on the
\* kill channel for one interval and its sender is still there.
DaemonTimeout ==
    /\ dpc = "wait"
    /\ killq = 0
    /\ killLive
    /\ Len(tickq) < MaxPending
    /\ timeouts' = timeouts + 1
    /\ dpc' = "send"
    /\ UNCHANGED <<chans, consumer, input, sent, reason>>

\* Variant of DaemonStop: only Err(Disconnected) returns; a received kill
\* signal is taken off the channel and the loop goes on.
DaemonStopIgnoresSignal ==
    /\ dpc = "wait"
    /\ (killq > 0 \/ ~killLive)
    /\ IF killq > 0
       THEN /\ killq' = killq - 1
            /\ UNCHANGED <<dpc, reason, sendLive, killRecvLive>>
       ELSE DaemonExit("disconnected")
    /\ UNCHANGED <<consumer, input, tickq, recvLive, killLive, timeouts, sent>>

\* Variant of DaemonStop: a last tick is sent before the daemon returns.
DaemonStopFlushes ==
    /\ dpc = "wait"
    /\ (killq > 0 \/ ~killLive)
    /\ DaemonExit(IF killq > 0 THEN "signal" ELSE "disconnected")
    /\ tickq' = IF recvLive THEN Append(tickq, timeouts) ELSE tickq
    /\ sent' = IF recvLive THEN sent + 1 ELSE sent
    /\ UNCHANGED <<consumer, input, recvLive, killLive, timeouts>>

\* kill_recv.recv_timeout(interval) = Ok(()) or Err(Disconnected): a kill
\* signal is queued, or the channel is empty and its sender is gone.  Both
\* take the `_ => return` arm.
DaemonStop ==
    /\ dpc = "wait"
    /\ (killq > 0 \/ ~killLive)
    /\ DaemonExit(IF killq > 0 THEN "signal" ELSE "disconnected")
    /\ UNCHANGED <<consumer, input, tickq, recvLive, killLive, timeouts, sent>>

\* Variant of DaemonSend: the daemon returns after its first successful send.
DaemonSendOnce ==
    /\ dpc = "send"
    /\ IF recvLive
       THEN /\ tickq' = Append(tickq, timeouts)
            /\ sent' = sent + 1
            /\ DaemonExit("sendfail")
       ELSE /\ DaemonExit("sendfail")
            /\ UNCHANGED <<tickq, sent>>
    /\ UNCHANGED <<consumer, input, recvLive, killLive, timeouts>>

\* Variant of DaemonSend: a tick is dropped when one is already pending (a
\* one-slot tick channel).
DaemonSendCoalesce ==
    /\ dpc = "send"
    /\ IF recvLive
       THEN /\ tickq' = IF tickq = <<>> THEN <<timeouts>> ELSE tickq
            /\ sent' = IF tickq = <<>> THEN sent + 1 ELSE sent
            /\ dpc' = "wait"
            /\ UNCHANGED <<killq, sendLive, killRecvLive, reason>>
       ELSE /\ DaemonExit("sendfail")
            /\ UNCHANGED <<tickq, sent>>
    /\ UNCHANGED <<consumer, input, recvLive, killLive, timeouts>>

\* Variant of DaemonSend: the tick channel holds one message (a rendezvous
\* channel of capacity 1), and the send waits while it is full.
DaemonSendBounded ==
    /\ dpc = "send"
    /\ (recvLive => tickq = <<>>)
    /\ IF recvLive
       THEN /\ tickq' = Append(tickq, timeouts)
            /\ sent' = sent + 1
            /\ dpc' = "wait"
            /\ UNCHANGED <<killq, sendLive, killRecvLive, reason>>
       ELSE /\ DaemonExit("sendfail")
            /\ UNCHANGED <<tickq, sent>>
    /\ UNCHANGED <<consumer, input, recvLive, killLive, timeouts>>

\* Variant of DaemonSend: the daemon advances the source as it ticks.
DaemonSendPrefetch ==
    /\ dpc = "send"
    /\ IF recvLive
       THEN /\ tickq' = Append(tickq, timeouts)
            /\ sent' = sent + 1
            /\ dpc' = "wait"
            /\ src' = IF src # <<>> THEN Tail(src) ELSE src
            /\ UNCHANGED <<killq, sendLive, killRecvLive, reason>>
       ELSE /\ DaemonExit("sendfail")
            /\ UNCHANGED <<tickq, sent, src>>
    /\ UNCHANGED <<cpc, consumed, calls, held, deadAtCall, returns, fatal,
                   shutdowns, atKill, input, recvLive, killLive, timeouts>>

\* send.send(()) after a timeout: queued when the receiver exists, and the
\* loop goes on; Err when the receiver is gone, and the daemon returns.
DaemonSend ==
    /\ dpc = "send"
    /\ IF recvLive
       THEN /\ tickq' = Append(tickq, timeouts)
            /\ sent' = sent + 1
            /\ dpc' = "wait"
            /\ UNCHANGED <<killq, sendLive, killRecvLive, reason>>
       ELSE /\ DaemonExit("sendfail")
            /\ UNCHANGED <<tickq, sent>>
    /\ UNCHANGED <<consumer, input, recvLive, killLive, timeouts>>

Daemon == DaemonTimeout \/ DaemonStop \/ DaemonSend

\* ------------------------------------------------------------- consumer
\* Variant of IntoIter: the conversion runs the Ticker's drop, sending the
\* kill signal, before the TickIter is used.
IntoIterSends ==
    /\ cpc = "ticker"
    /\ cpc' = "iter"
    /\ killq' = IF killRecvLive THEN killq + 1 ELSE killq
    /\ shutdowns' = shutdowns + 1
    /\ UNCHANGED <<tickq, recvLive, killLive, sendLive, killRecvLive, daemon,
                   input, src, consumed, calls, held, deadAtCall, returns, fatal,
                   atKill>>

\* Ticker::into_iter: the handle is wrapped in a TickIter; nothing is sent.
IntoIter ==
    /\ cpc = "ticker"
    /\ cpc' = "iter"
    /\ UNCHANGED <<chans, daemon, input, src, consumed, calls, held, deadAtCall,
                   returns, fatal, shutdowns, atKill>>

\* Variant of CallNext: next() looks at the source first and reports
\* exhaustion at once, without waiting for a tick.
CallNextChecksFirst ==
    /\ cpc = "iter"
    /\ calls < MaxCalls
    /\ calls' = calls + 1
    /\ held' = 0
    /\ deadAtCall' = (dpc = "done")
    /\ IF src = <<>>
       THEN /\ returns' = Append(returns, [item |-> None, ticks |-> 0, at |-> timeouts, dead |-> dpc = "done"])
            /\ cpc' = "iter"
       ELSE /\ cpc' = "recv"
            /\ UNCHANGED returns
    /\ UNCHANGED <<chans, daemon, input, src, consumed, fatal, shutdowns, atKill>>

\* The consumer calls TickIter::next and is about to block in recv().
CallNext ==
    /\ cpc = "iter"
    /\ calls < MaxCalls
    /\ cpc' = "recv"
    /\ calls' = calls + 1
    /\ held' = 0
    /\ deadAtCall' = (dpc = "done")
    /\ UNCHANGED <<chans, daemon, input, src, consumed, returns, fatal, shutdowns, atKill>>

\* Variant of Recv: a disconnected tick channel is reported as exhaustion
\* (recv().ok()? in place of recv().expect(..)).
RecvDisconnectAsNone ==
    /\ cpc = "recv"
    /\ (tickq # <<>> \/ ~sendLive)
    /\ IF tickq # <<>>
       THEN /\ tickq' = Tail(tickq)
            /\ consumed' = consumed + 1
            /\ held' = held + 1
            /\ cpc' = "next"
            /\ UNCHANGED returns
       ELSE /\ returns' = Append(returns, [item |-> None, ticks |-> 0, at |-> timeouts, dead |-> dpc = "done"])
            /\ cpc' = "iter"
            /\ UNCHANGED <<tickq, consumed, held>>
    /\ UNCHANGED <<killq, recvLive, killLive, sendLive, killRecvLive, daemon,
                   input, src, calls, deadAtCall, fatal, shutdowns, atKill>>

\* Variant of Recv: the receive never notices that the sender is gone.
RecvNoDisconnect ==
    /\ cpc = "recv"
    /\ tickq # <<>>
    /\ tickq' = Tail(tickq)
    /\ consumed' = consumed + 1
    /\ held' = held + 1
    /\ cpc' = "next"
    /\ UNCHANGED <<killq, recvLive, killLive, sendLive, killRecvLive, daemon,
                   input, src, calls, deadAtCall, returns, fatal, shutdowns, atKill>>

\* Variant of Recv: the receive drains every pending tick.
RecvDrains ==
    /\ cpc = "recv"
    /\ (tickq # <<>> \/ ~sendLive)
    /\ IF tickq # <<>>
       THEN /\ tickq' = <<>>
            /\ consumed' = consumed + Len(tickq)
            /\ held' = held + Len(tickq)
            /\ cpc' = "next"
            /\ UNCHANGED fatal
       ELSE /\ fatal' = TRUE
            /\ cpc' = "panicked"
            /\ UNCHANGED <<tickq, consumed, held>>
    /\ UNCHANGED <<killq, recvLive, killLive, sendLive, killRecvLive, daemon,
                   input, src, calls, deadAtCall, returns, shutdowns, atKill>>

\* self.ticker.recv.recv().expect("ticker channel to live"): takes the oldest
\* tick when there is one; blocks while the channel is empty and its sender
\* lives; panics when the channel is empty and its sender is gone.
Recv ==
    /\ cpc = "recv"
    /\ (tickq # <<>> \/ ~sendLive)
    /\ IF tickq # <<>>
       THEN /\ tickq' = Tail(tickq)
            /\ consumed' = consumed + 1
            /\ held' = held + 1
            /\ cpc' = "next"
            /\ UNCHANGED fatal
       ELSE /\ fatal' = TRUE
            /\ cpc' = "panicked"
            /\ UNCHANGED <<tickq, consumed, held>>
    /\ UNCHANGED <<killq, recvLive, killLive, sendLive, killRecvLive, daemon,
                   input, src, calls, deadAtCall, returns, shutdowns, atKill>>

\* I::next of a finite source: its next element, or None once it is empty.
SrcItem(s) == IF s # <<>> THEN Some(Head(s)) ELSE None
\* Variant of SrcRest: the source is not advanced.
SrcRestStuck(s) == s

\* Variant of SrcRest: a source that starts over once it has reported None.
SrcRestCycle(s) == IF s # <<>> THEN Tail(s) ELSE input

SrcRest(s) == IF s # <<>> THEN Tail(s) ELSE s

\* Variant of SrcNext: on an exhausted source the call goes back to wait for
\* another tick instead of returning None.
SrcNextReblocks ==
    /\ cpc = "next"
    /\ IF src = <<>>
       THEN /\ cpc' = "recv"
            /\ UNCHANGED <<returns, src>>
       ELSE /\ returns' = Append(returns, [item |-> SrcItem(src), ticks |-> held,
                                           at |-> timeouts, dead |-> deadAtCall])
            /\ src' = SrcRest(src)
            /\ cpc' = "iter"
    /\ UNCHANGED <<chans, daemon, input, consumed, calls, held, deadAtCall,
                   fatal, shutdowns, atKill>>

\* Variant of SrcNext: on exhaustion next() sends the kill signal itself.
SrcNextKillsOnExhaustion ==
    /\ cpc = "next"
    /\ returns' = Append(returns, [item |-> SrcItem(src), ticks |-> held,
                                   at |-> timeouts, dead |-> deadAtCall])
    /\ src' = SrcRest(src)
    /\ cpc' = "iter"
    /\ killq' = IF src = <<>> /\ killRecvLive THEN killq + 1 ELSE killq
    /\ UNCHANGED <<tickq, recvLive, killLive, sendLive, killRecvLive, daemon,
                   input, consumed, calls, held, deadAtCall, fatal, shutdowns,
                   atKill>>

\* self.ticker.src.next(), whose result next() returns.
SrcNext ==
    /\ cpc = "next"
    /\ returns' = Append(returns, [item |-> SrcItem(src), ticks |-> held,
                                   at |-> timeouts, dead |-> deadAtCall])
    /\ src' = SrcRest(src)
    /\ cpc' = "iter"
    /\ UNCHANGED <<chans, daemon, input, consumed, calls, held, deadAtCall,
                   fatal, shutdowns, atKill>>

\* Drop for Ticker, run when the Ticker or the TickIter holding it goes out
\* of scope (also while a panic unwinds): `let _ = self.kill.send(())`, whose
\* Err (kill_recv is gone) is ignored.
DropSend ==
    /\ cpc \in {"ticker", "iter", "panicked"}
    /\ killq' = IF killRecvLive THEN killq + 1 ELSE killq
    /\ shutdowns' = shutdowns + 1
    /\ atKill' = [sent |-> sent, timeouts |-> timeouts, pending |-> dpc = "send"]
    /\ cpc' = "drop_recv"
    /\ UNCHANGED <<tickq, recvLive, killLive, sendLive, killRecvLive, daemon,
                   input, src, consumed, calls, held, deadAtCall, returns, fatal>>

\* After drop() the fields go in declaration order: src, then recv (the
\* ticks still queued go with it), ...
DropRecv ==
    /\ cpc = "drop_recv"
    /\ recvLive' = FALSE
    /\ tickq' = <<>>
    /\ cpc' = "drop_kill"
    /\ UNCHANGED <<killq, killLive, sendLive, killRecvLive, daemon,
                   input, src, consumed, calls, held, deadAtCall, returns, fatal,
                   shutdowns, atKill>>

\* Variant of DropKill: the destructor joins the daemon thread first.
DropKillJoins ==
    /\ cpc = "drop_kill"
    /\ dpc = "done"
    /\ killLive' = FALSE
    /\ cpc' = "dropped"
    /\ UNCHANGED <<tickq, killq, recvLive, sendLive, killRecvLive, daemon,
                   input, src, consumed, calls, held, deadAtCall, returns, fatal,
                   shutdowns, atKill>>

\* ... then kill.
DropKill ==
    /\ cpc = "drop_kill"
    /\ killLive' = FALSE
    /\ cpc' = "dropped"
    /\ UNCHANGED <<tickq, killq, recvLive, sendLive, killRecvLive, daemon,
                   input, src, consumed, calls, held, deadAtCall, returns, fatal,
                   shutdowns, atKill>>

\* The steps of a next() call in progress, and of a drop in progress.
InCall == Recv \/ SrcNext
Dropping == DropRecv \/ DropKill
Consumer == IntoIter \/ CallNext \/ InCall \/ DropSend \/ Dropping

\* ------------------------------------------------------------- specifications
Next == Daemon \/ Consumer

Spec == Init /\ [][Next]_vars

\* Both threads are scheduled: the daemon keeps running, and a consumer that
\* is inside next() or inside drop keeps running.
FairSpec == Spec /\ WF_vars(Daemon) /\ WF_vars(InCall) /\ WF_vars(Dropping)

\* Only the consumer is assumed to keep running: the daemon may take no
\* step at all.
ConsumerFairSpec == Spec /\ WF_vars(InCall) /\ WF_vars(Dropping)

\* Only the daemon is assumed to keep running.
DaemonFairSpec == Spec /\ WF_vars(Daemon)

\* The daemon thread ends without reaching a return of its loop (it "has
\* terminated unexpectedly"): the thread's closure is dropped, and with it
\* send and kill_recv, while the handle is still held.
DaemonFault ==
    /\ dpc \in {"wait", "send"}
    /\ cpc \in {"ticker", "iter", "recv", "next"}
    /\ DaemonExit("fault")
    /\ UNCHANGED <<consumer, input, tickq, recvLive, killLive, timeouts, sent>>

NextFault == Next \/ DaemonFault

\* The program in an environment that can end the daemon thread.
FaultSpec == Init /\ [][NextFault]_vars

FaultFairSpec == FaultSpec /\ WF_vars(Daemon) /\ WF_vars(InCall) /\ WF_vars(Dropping)

\* ------------------------------------------------------------- properties
\* The consumer holds a handle it has not begun to destroy.
HandleLive == cpc \in {"ticker", "iter", "recv", "next"}

\* A timeout whose tick the daemon has yet to send.
Unsent == IF dpc = "send" THEN 1 ELSE 0

\* C1: the calls that have returned gave the source's elements in their
\* original order, each once: the i-th return is Some(input[i]) for i up to
\* the source's length N, and None from call N+1 on.
C1InOrder ==
    \A i \in 1..Len(returns) :
        returns[i].item = IF i <= Len(input) THEN Some(input[i]) ELSE None

\* A source of two different elements has been read to its end and the next
\* call has returned None.
C1Witness ==
    /\ Len(input) >= 2
    /\ input[1] # input[2]
    /\ Len(returns) = Len(input) + 1

\* C2: between any two consecutive returns of next() the daemon's wait times
\* out at least once (the iterator unblocks at most once per interval).
C2OncePerInterval ==
    \A i \in 1..Len(returns) : i > 1 => returns[i].at > returns[i - 1].at

\* C3: the calls that have returned are at most as many as the timeouts the
\* daemon has completed, the i-th return coming no earlier than the i-th
\* timeout; before the first timeout no tick exists.
C3NoEarlyReturn ==
    /\ Len(returns) <= timeouts
    /\ \A i \in 1..Len(returns) : returns[i].at >= i
    /\ (timeouts = 0 => tickq = <<>> /\ sent = 0 /\ consumed = 0)

\* Every completed timeout has been used up by a return, more than once.
C3Witness == timeouts >= 2 /\ Len(returns) = timeouts

\* C4: once drop has sent (or tried to send) the kill signal the daemon
\* eventually terminates, and a terminated daemon stays terminated and sends
\* no further tick.
C4DaemonStops ==
    /\ (shutdowns > 0) ~> (dpc = "done")
    /\ [][dpc = "done" => (dpc' = "done" /\ sent' = sent /\ timeouts' = timeouts)]_vars

\* The daemon was between its timeout and its send while the handle was
\* destroyed, and terminated on the failed send.
C4Witness == cpc = "dropped" /\ dpc = "done" /\ reason = "sendfail"

\* C5: no next() call ends in the expect() panic; while the handle is held
\* the daemon has not terminated and its tick sender exists.
C5NoFatal ==
    /\ ~fatal
    /\ cpc # "panicked"
    /\ (HandleLive => dpc # "done" /\ sendLive)

\* A second or later call is blocked on an empty tick channel.
C5Witness == cpc = "recv" /\ tickq = <<>> /\ calls >= 2 /\ dpc = "wait"

\* C6: a next() call waiting on a tick channel that is empty and whose sender
\* is gone ends in the fatal failure: its next step panics, appends no
\* return (neither None nor an element), consumes no tick and leaves the
\* source where it was.
C6FatalOnDisconnect ==
    [][(cpc = "recv" /\ tickq = <<>> /\ ~sendLive /\ cpc' # cpc)
          => /\ fatal' /\ cpc' = "panicked"
             /\ returns' = returns
             /\ src' = src
             /\ consumed' = consumed]_vars

\* A call has panicked with elements still left in the source.
C6Witness == fatal /\ cpc = "panicked" /\ src # <<>> /\ Len(returns) < calls

\* C7 as stated: every next() call begun after the daemon terminated ends in
\* the fatal failure.
C7AlwaysFatal ==
    /\ (deadAtCall /\ cpc # "recv") => fatal
    /\ \A i \in 1..Len(returns) : ~returns[i].dead

\* C7, amended: a next() call begun after the daemon terminated does not
\* block forever; it ends in the fatal failure exactly when the tick channel
\* is empty at its receive, and otherwise takes a buffered tick.
C7NeverHangs ==
    /\ (deadAtCall /\ cpc = "recv") ~> (cpc # "recv")
    /\ [][(deadAtCall /\ cpc = "recv" /\ cpc' # cpc)
             => /\ fatal' <=> (tickq = <<>>)
                /\ tickq # <<>> => (cpc' = "next" /\ consumed' = consumed + 1)]_vars

\* Calls begun after the daemon terminated: one has returned on a buffered
\* tick, a later one has panicked.
C7Witness ==
    /\ deadAtCall /\ fatal
    /\ returns # <<>>
    /\ returns[Len(returns)].dead
    /\ reason = "fault"

\* What the last call that returned gave (None when none has).
LastItem == IF returns = <<>> THEN None ELSE returns[Len(returns)].item

\* C8: every next() call on a live handle eventually returns, consuming at
\* most one tick; a call on an exhausted source eventually returns None.
C8CallReturns ==
    /\ (cpc = "recv") ~> (cpc = "iter" /\ Len(returns) = calls)
    /\ (cpc = "recv" /\ src = <<>>)
          ~> (cpc = "iter" /\ Len(returns) = calls /\ LastItem = None)
    /\ [](held <= 1)

\* A call made after exhaustion was already reported is waiting for a tick.
C8Witness ==
    /\ cpc = "recv" /\ src = <<>> /\ tickq = <<>>
    /\ Len(returns) > Len(input)

\* C9: every None was returned by a call that consumed exactly one tick, and
\* a call on an exhausted source cannot move while the tick channel is empty.
C9TickBeforeExhaustion ==
    /\ \A i \in 1..Len(returns) : returns[i].item = None => returns[i].ticks = 1
    /\ (cpc = "recv" /\ src = <<>> /\ tickq = <<>> /\ sendLive) => ~ENABLED InCall
    /\ Len(returns) + (IF cpc = "next" THEN 1 ELSE 0) = consumed

\* Exhaustion has been reported twice, each time after one tick.
C9Witness ==
    /\ Len(returns) >= Len(input) + 2
    /\ returns[Len(returns)].item = None
    /\ returns[Len(returns)].ticks = 1

Destroyed == cpc \in {"drop_recv", "drop_kill", "dropped"}

\* C11: kill.send(()) is called once in a ticker's life, by drop and not
\* before: never while the handle is held, not by into_iter; the kill channel
\* holds at most one message; a send that fails because the daemon is gone
\* queues nothing and raises nothing, and drop goes on.
C11ShutdownOnce ==
    /\ [](/\ shutdowns <= 1
          /\ killq <= 1
          /\ (HandleLive => shutdowns = 0 /\ killq = 0)
          /\ (Destroyed => shutdowns = 1))
    /\ [][(cpc = "ticker" /\ cpc' = "iter")
             => (killq' = killq /\ shutdowns' = shutdowns)]_vars
    /\ [][(shutdowns' # shutdowns /\ ~killRecvLive)
             => (killq' = killq /\ fatal' = fatal /\ cpc' = "drop_recv")]_vars

\* A TickIter that was iterated has been destroyed, and the one signal it
\* sent is still queued.
C11Witness ==
    /\ cpc = "dropped" /\ shutdowns = 1 /\ killq = 1
    /\ returns # <<>> /\ dpc = "wait"

\* C12: every step of destroying the handle is enabled whatever the daemon
\* is doing and changes nothing of the daemon's; destruction completes even
\* if the daemon never takes a step; right after construction, before the
\* daemon has done anything, the handle can be converted or destroyed.
C12FireAndForget ==
    /\ [](/\ cpc \in {"ticker", "iter"} => ENABLED DropSend
          /\ cpc = "drop_recv" => ENABLED DropRecv
          /\ cpc = "drop_kill" => ENABLED DropKill
          /\ (cpc = "ticker" /\ timeouts = 0) => ENABLED IntoIter)
    /\ (shutdowns > 0) ~> (cpc = "dropped")
    /\ [][((cpc \in {"ticker", "iter"} \/ Destroyed) /\ cpc' # cpc /\ cpc' # "recv")
             => (dpc' = dpc /\ timeouts' = timeouts /\ sent' = sent)]_vars

\* The handle has been destroyed completely while the daemon has not taken
\* a single step.
C12Witness ==
    /\ cpc = "dropped" /\ dpc = "wait"
    /\ timeouts = 0 /\ killq = 1 /\ ~killLive

\* C13: after drop has called kill.send(()) the daemon completes no further
\* timeout; it sends at most one more tick, and only one whose timeout had
\* fired before the call; a wait that finds the signal queued cannot time
\* out and can only return.
C13ExitOnNextWake ==
    /\ shutdowns > 0 =>
          /\ timeouts = atKill.timeouts
          /\ sent <= atKill.sent + 1
          /\ (sent > atKill.sent => atKill.pending)
    /\ (dpc = "wait" /\ killq > 0) => (~ENABLED DaemonTimeout /\ ENABLED DaemonStop)

\* The daemon sent the tick of a timeout that had fired before the signal,
\* then found the signal and terminated.
C13Witness ==
    /\ shutdowns > 0 /\ sent = atKill.sent + 1
    /\ dpc = "done" /\ reason = "signal"

\* C14: every call that returned consumed exactly one tick and advanced the
\* source once, the receive first: the advances made (one per return) never
\* exceed the ticks consumed, and fall one short exactly while a call is
\* between its receive and its advance.
C14OneTickOneAdvance ==
    /\ Len(returns) <= consumed
    /\ consumed = Len(returns) + (IF cpc = "next" THEN 1 ELSE 0)
    /\ \A i \in 1..Len(returns) : returns[i].ticks = 1
    /\ Len(input) = Len(src) + (IF Len(returns) < Len(input) THEN Len(returns) ELSE Len(input))
    /\ (cpc = "next" => held = 1)
    /\ (cpc = "recv" => held = 0)

\* A call is between its receive and its advance, after earlier calls with
\* ticks still pending.
C14Witness ==
    /\ cpc = "next" /\ consumed = Len(returns) + 1
    /\ Len(returns) >= 1 /\ tickq # <<>>

\* The tags of the ticks in q, oldest first, strictly increase.
Increasing(q) == \A i \in 1..Len(q) : \A j \in 1..Len(q) : i < j => q[i] < q[j]

\* C15: while the handle is held the ticks buffered are exactly those sent
\* and not yet consumed, in the order they were sent and none twice; a
\* daemon that has timed out can always send, however many ticks are
\* pending, and its send appends one tick and takes none away.
C15NoTickLost ==
    /\ [](HandleLive => Len(tickq) + consumed = sent)
    /\ [](Increasing(tickq) /\ \A i \in 1..Len(tickq) : tickq[i] <= timeouts)
    /\ [](dpc = "send" => ENABLED DaemonSend)
    /\ [][(dpc = "send" /\ dpc' = "wait")
             => (tickq' = Append(tickq, timeouts) /\ sent' = sent + 1)]_vars
    /\ [][(consumed' # consumed)
             => (tickq # <<>> /\ tickq' = Tail(tickq) /\ consumed' = consumed + 1)]_vars

\* The consumer never called next(): every tick sent is still pending, and
\* one more is about to be added.
C15Witness ==
    /\ calls = 0 /\ HandleLive
    /\ Len(tickq) >= 2 /\ Len(tickq) = sent
    /\ dpc = "send"

\* C16: a terminated daemon terminated because it received the kill signal
\* (drop had sent it), because the kill channel was disconnected (its sender
\* dropped), or because a tick send failed (the tick receiver dropped); the
\* terminating step sends no tick, no step follows it, and the ticks sent
\* never exceed the timeouts completed, one per timeout while the receiver
\* exists.
C16StopReasons ==
    /\ [](dpc = "done" <=> reason # "")
    /\ [](reason \in {"", "signal", "disconnected", "sendfail"})
    /\ [](reason = "signal" => shutdowns > 0)
    /\ [](reason = "disconnected" => ~killLive)
    /\ [](reason = "sendfail" => ~recvLive /\ sent < timeouts)
    /\ [](sent <= timeouts /\ (recvLive => sent + Unsent = timeouts))
    /\ [][(dpc # "done" /\ dpc' = "done") => (sent' = sent /\ tickq' = tickq)]_vars
    /\ [][dpc = "done" => UNCHANGED <<dpc, reason, sent, timeouts>>]_vars
    /\ [][(dpc = "send" /\ ~recvLive /\ dpc' # dpc) => dpc' = "done"]_vars

\* The daemon ticked several times and then terminated on the signal.
C16Witness ==
    /\ dpc = "done" /\ reason = "signal"
    /\ sent >= 2 /\ sent = timeouts

\* Some call has returned None.
Reported == \E i \in 1..Len(returns) : returns[i].item = None

C18NoSharedState ==
    /\ [][(dpc' # dpc \/ timeouts' # timeouts \/ sent' # sent \/ reason' # reason)
             => UNCHANGED <<src, input, cpc, consumed, calls, held, returns, fatal,
                            shutdowns, recvLive, killLive>>]_vars
    /\ [][(cpc \in {"iter", "recv", "next"} /\ cpc' \in {"iter", "recv", "next"} /\ cpc' # cpc)
             => UNCHANGED <<killq, killLive, killRecvLive, sendLive, dpc, timeouts,
                            sent, reason, shutdowns>>]_vars
    /\ [][Len(tickq') > Len(tickq) => (dpc = "send" /\ dpc' = "wait" /\ cpc' = cpc)]_vars
    /\ [][Len(tickq') < Len(tickq) => (cpc' # cpc /\ dpc' = dpc)]_vars
    /\ [][killq' > killq => (cpc' # cpc /\ dpc' = dpc)]_vars
    /\ [][killq' < killq => (dpc' = "done" /\ cpc' = cpc)]_vars

\* Both parties have acted on both channels: ticks sent and consumed, the
\* source read to its end, the signal sent and received.
C18Witness ==
    /\ sent >= 2 /\ consumed >= 2
    /\ src = <<>> /\ Len(input) = 2
    /\ reason = "signal"

\* C19: after a call has returned None, while the handle is held, no kill
\* signal has been sent, the daemon has not terminated and both channels are
\* connected, and the daemon's next timeout can fire; a daemon that has
\* terminated did so after drop began.
C19ExhaustionKeepsDaemon ==
    /\ (Reported /\ HandleLive) =>
          /\ shutdowns = 0 /\ killq = 0
          /\ dpc # "done" /\ sendLive /\ killRecvLive /\ killLive /\ recvLive
          /\ (dpc = "wait" /\ Len(tickq) < MaxPending) => ENABLED DaemonTimeout
          /\ dpc = "send" => ENABLED DaemonSend
    /\ dpc = "done" => (shutdowns > 0 /\ Destroyed)

\* Two more timeouts have completed since None was returned and their ticks
\* are piling up in the channel of a handle still held.
C19Witness ==
    /\ HandleLive /\ Len(tickq) >= 2
    /\ \E i \in 1..Len(returns) :
          returns[i].item = None /\ timeouts >= returns[i].at + 2

====
